---- MODULE Spec2Model ----
(***************************************************************************)
(* Model of the ESP32-C6 Zigbee fan switch (Heizungsbeluefter):            *)
(*   relay.c            the relay (stored state and GPIO output level)     *)
(*   zigbee_handler.c   the ZDO signal handler, the attribute handler and  *)
(*                      the single on/off callback slot                    *)
(*   Heizungsbeluefter.ino / app_main.c   setup(): the startup sequence    *)
(*                                                                         *)
(* Specifications:                                                         *)
(*   Spec       the whole program: setup() step by step, then the Zigbee   *)
(*              stack's main loop delivering signals, attribute events and *)
(*              scheduler alarms one at a time, with a restart (crash,     *)
(*              abort, power cycle) possible at every point.               *)
(*   SpecRelay  the relay module alone, its four functions called in any   *)
(*              order from one context, from any prior state and level.    *)
(*   SpecJoin, SpecJoinLive   the signal handler and the scheduler's       *)
(*              alarms in the running main loop, over time.                *)
(*   SpecJoinCmd   the same with on/off attribute events in between.       *)
(*   SpecZb     the zigbee_handler module's interface called in any order. *)
(*   SpecRace   relay_toggle and relay_set statement by statement in two   *)
(*              contexts.                                                  *)
(*                                                                         *)
(* Every handler is one atomic action: the program has a single context    *)
(* (setup() and the stack's callbacks run in the same task), so the only   *)
(* thing that can observe the middle of a handler is a restart, and a      *)
(* restart resets the memory and leaves the pin at an arbitrary level.     *)
(***************************************************************************)
EXTENDS Integers, Sequences, FiniteSets, TLC

VARIABLES
    RELAY_ACTIVE_LEVEL, \* relay.h: build-time polarity, 1 active-high, 0 active-low
    s_relay_state,      \* relay.c: stored relay state
    gpio_level,         \* level on the relay pin
    gpio_output,        \* the pin is configured as an output (gpio_config succeeded)
    s_on_off_callback,  \* zigbee_handler.c: the callback slot
    zb_handlers,        \* action and signal handlers are registered with the stack
    alarms,             \* pending scheduler alarms (their delays, in arming order)
    pc,                 \* position of setup()
    op,                 \* the operation that ran last
    arg,                \* its input: the message or signal it handled
    ret,                \* its result
    cb_calls,           \* values the callback was invoked with during it
    gpio_writes,        \* levels written to the pin during it
    steer_cmds,         \* begin-steering commands issued during it
    hist,               \* the last relay calls, each with the state and level before it
    h_true,             \* an attribute event with value true was accepted in this boot
    h_prev_on,          \* the stored state was ON when the restart before this boot came
    join_status,        \* SpecJoin: the join progress, named after the handler's last report
    h_steer_fail,       \* SpecJoin: failed steering signals handled so far
    h_pending,          \* SpecJoin: for each pending alarm, the signal that armed it and its age
    h_scn,              \* SpecJoin: how far the run so far follows the join scenario
    h_steering,         \* SpecJoin: a begin-steering command awaits its steering-complete signal
    attr_writes,        \* attribute-write requests made to the stack during the operation
    h_dropped,          \* the value of the last on/off event that found the slot empty
    h_prev_cb,          \* the slot as it was before the last registration
    ctx                 \* SpecRace: position and locals of each of the two contexts

vars == <<RELAY_ACTIVE_LEVEL, s_relay_state, gpio_level, gpio_output,
          s_on_off_callback, zb_handlers, alarms, pc, op, arg, ret,
          cb_calls, gpio_writes, steer_cmds, hist, h_true, h_prev_on,
          join_status, h_steer_fail, h_pending, h_scn, h_steering,
          attr_writes, h_dropped, h_prev_cb, ctx>>

joinVars == <<join_status, h_steer_fail, h_pending, h_scn, h_steering>>
zigbeeVars == <<s_on_off_callback, zb_handlers, alarms>>
apiVars == <<attr_writes, h_dropped, h_prev_cb, ctx>>

(***************************************************************************)
(* Bounds and constants                                                    *)
(***************************************************************************)
HistLen == 2            \* relay calls remembered in hist
MaxAlarms == 2          \* pending alarms at a time

ZIGBEE_ENDPOINT == 10
OtherEndpoint == ZIGBEE_ENDPOINT + 1
StartupRetryDelay == 1000
SteeringRetryDelay == 2000

Levels == {0, 1}
NoArg == [kind |-> "none"]

Endpoints == {ZIGBEE_ENDPOINT, OtherEndpoint}
Clusters == {"ON_OFF", "LEVEL_CONTROL"}
AttrIds == {"ON_OFF_ON_OFF", "ON_OFF_ON_TIME"}
AttrTypes == {"BOOL", "U8"}
ZclStatuses == {"SUCCESS", "FAIL"}
Values == {"NULL", "false", "true"}

NullMessage ==
    [kind |-> "message", present |-> FALSE, status |-> "FAIL", dst_endpoint |-> 0,
     cluster |-> "NONE", attr_id |-> "NONE", type |-> "NONE", value |-> "NULL"]

Messages ==
    [kind : {"message"}, present : {TRUE}, status : ZclStatuses,
     dst_endpoint : Endpoints, cluster : Clusters, attr_id : AttrIds,
     type : AttrTypes, value : Values] \cup {NullMessage}

SignalTypes == {"SKIP_STARTUP", "DEVICE_FIRST_START", "DEVICE_REBOOT", "STEERING", "OTHER"}
StartSignals == {"DEVICE_FIRST_START", "DEVICE_REBOOT"}
\* factory_new is what esp_zb_bdb_is_factory_new() answers during the handling
\* of the signal; it is asked only on a successful start or reboot signal
Signals ==
    {s \in [kind : {"signal"}, type : SignalTypes, status : {"ESP_OK", "ESP_FAIL"},
            factory_new : BOOLEAN] :
        s.factory_new => (s.type \in StartSignals /\ s.status = "ESP_OK")}

BoolName(b) == IF b THEN "true" ELSE "false"

(***************************************************************************)
(* relay.c                                                                 *)
(***************************************************************************)
\* a variant of relay_off_level with the polarity the wrong way round
relay_off_level_inverted == IF RELAY_ACTIVE_LEVEL # 0 THEN 1 ELSE 0

\* relay_init, line 48: the level of the OFF state
relay_off_level == IF RELAY_ACTIVE_LEVEL # 0 THEN 0 ELSE 1

\* a variant of relay_level that takes the relay for active-high
relay_level_active_high(on) == IF on THEN 1 ELSE 0

\* relay_set, lines 61-67: the level of a state
relay_level(on) ==
    IF RELAY_ACTIVE_LEVEL # 0
    THEN (IF on THEN 1 ELSE 0)
    ELSE (IF on THEN 0 ELSE 1)

\* the record of a relay call, with the state and the level it found
RelayCall(name, a) ==
    LET e == [op |-> name, arg |-> a, state |-> s_relay_state, level |-> gpio_level]
        h == Append(hist, e)
    IN  IF Len(h) > HistLen THEN SubSeq(h, Len(h) - HistLen + 1, Len(h)) ELSE h

\* gpio_set_level(RELAY_GPIO_PIN, level)
gpio_set_level(level) ==
    /\ gpio_level' = level
    /\ gpio_writes' = <<level>>

\* relay_init, lines 25-54; cfg is what gpio_config returned
relay_init_ret(cfg) == IF cfg # "ESP_OK" THEN cfg ELSE "ESP_OK"

\* a variant of relay_init that resets the stored state before configuring
\* the pin
relay_init_resets_first(cfg) ==
    IF cfg # "ESP_OK"
    THEN /\ gpio_writes' = <<>>
         /\ s_relay_state' = FALSE
         /\ UNCHANGED <<gpio_level, gpio_output>>
    ELSE /\ gpio_output' = TRUE
         /\ s_relay_state' = FALSE
         /\ gpio_set_level(relay_off_level)

\* a variant of relay_init that applies the stored state instead of forcing OFF
relay_init_keeps_state(cfg) ==
    IF cfg # "ESP_OK"
    THEN /\ gpio_writes' = <<>>
         /\ UNCHANGED <<s_relay_state, gpio_level, gpio_output>>
    ELSE /\ gpio_output' = TRUE
         /\ UNCHANGED s_relay_state
         /\ gpio_set_level(relay_level(s_relay_state))

relay_init(cfg) ==
    IF cfg # "ESP_OK"
    THEN /\ gpio_writes' = <<>>
         /\ UNCHANGED <<s_relay_state, gpio_level, gpio_output>>
    ELSE /\ gpio_output' = TRUE
         /\ s_relay_state' = FALSE
         /\ gpio_set_level(relay_off_level)

\* a variant of relay_set that drives the pin and does not store the state
relay_set_forgets_state(on) ==
    /\ gpio_set_level(relay_level(on))
    /\ UNCHANGED <<s_relay_state, gpio_output>>

\* relay_set, lines 56-77
relay_set(on) ==
    /\ gpio_set_level(relay_level(on))
    /\ s_relay_state' = on
    /\ UNCHANGED gpio_output

\* a variant of relay_toggle that switches the relay on
relay_toggle_on == relay_set(TRUE)

\* relay_toggle, lines 79-85
relay_toggle == relay_set(~s_relay_state)

\* relay_get_state, lines 87-90
relay_get_state == s_relay_state

(***************************************************************************)
(* zigbee_handler.c                                                        *)
(***************************************************************************)
\* a variant of zb_attribute_handler_ret without the status check
zb_attribute_handler_ret_any_status(m) ==
    IF ~m.present THEN "ESP_FAIL" ELSE "ESP_OK"

\* a variant of zb_attribute_handler_ret that reports an empty slot as an error
zb_attribute_handler_ret_needs_callback(m) ==
    IF ~m.present THEN "ESP_FAIL"
    ELSE IF m.status # "SUCCESS" THEN "ESP_ERR_INVALID_ARG"
    ELSE IF s_on_off_callback = "NULL" THEN "ESP_FAIL"
    ELSE "ESP_OK"

\* zb_attribute_handler, lines 123-125: the early returns
zb_attribute_handler_ret(m) ==
    IF ~m.present THEN "ESP_FAIL"
    ELSE IF m.status # "SUCCESS" THEN "ESP_ERR_INVALID_ARG"
    ELSE "ESP_OK"

\* a variant of attr_is_on_off without the data type check
attr_is_on_off_any_type(m) ==
    /\ m.dst_endpoint = ZIGBEE_ENDPOINT
    /\ m.cluster = "ON_OFF"
    /\ m.attr_id = "ON_OFF_ON_OFF"

\* a variant of attr_is_on_off without the endpoint check
attr_is_on_off_any_endpoint(m) ==
    /\ m.cluster = "ON_OFF"
    /\ m.attr_id = "ON_OFF_ON_OFF"
    /\ m.type = "BOOL"

\* zb_attribute_handler, lines 132-135: the event is the on/off attribute
attr_is_on_off(m) ==
    /\ m.dst_endpoint = ZIGBEE_ENDPOINT
    /\ m.cluster = "ON_OFF"
    /\ m.attr_id = "ON_OFF_ON_OFF"
    /\ m.type = "BOOL"

\* a variant of on_off_value that takes an absent value for true
on_off_value_absent_true(m) == IF m.value # "NULL" THEN m.value = "true" ELSE TRUE

\* zb_attribute_handler, lines 137-138: the value as a bool, false when absent
on_off_value(m) == IF m.value # "NULL" THEN m.value = "true" ELSE FALSE

\* a variant of on_zigbee_on_off_command that logs and does not switch
on_zigbee_on_off_command_log_only(on) ==
    /\ gpio_writes' = <<>>
    /\ UNCHANGED <<s_relay_state, gpio_level, gpio_output, hist>>

\* a variant of on_zigbee_on_off_command that toggles whatever the command
on_zigbee_on_off_command_toggles(on) ==
    /\ hist' = RelayCall("relay_toggle", FALSE)
    /\ relay_toggle

\* on_zigbee_on_off_command (Heizungsbeluefter.ino, lines 54-60)
on_zigbee_on_off_command(on) ==
    /\ hist' = RelayCall("relay_set", on)
    /\ relay_set(on)

\* what can be in the callback slot: nothing, the program's callback
\* (Heizungsbeluefter.ino, line 54), or another function of the same type that
\* does not touch the relay
Callbacks == {"NULL", "on_zigbee_on_off_command", "other_callback"}

\* a variant of call_callback that passes on ON commands only
call_callback_on_only(cb, on) ==
    IF cb = "on_zigbee_on_off_command" /\ on
    THEN on_zigbee_on_off_command(on)
    ELSE /\ gpio_writes' = <<>>
         /\ UNCHANGED <<s_relay_state, gpio_level, gpio_output, hist>>

\* s_on_off_callback(on_off_value), line 144: the call through the pointer
call_callback(cb, on) ==
    IF cb = "on_zigbee_on_off_command"
    THEN on_zigbee_on_off_command(on)
    ELSE /\ gpio_writes' = <<>>
         /\ UNCHANGED <<s_relay_state, gpio_level, gpio_output, hist>>

\* a variant of attr_accepted that takes commands only while no retry is
\* pending
attr_accepted_when_idle(m) ==
    /\ zb_attribute_handler_ret(m) = "ESP_OK"
    /\ attr_is_on_off(m)
    /\ alarms = <<>>

\* the event gets past the early returns and is the on/off attribute
attr_accepted(m) ==
    /\ zb_attribute_handler_ret(m) = "ESP_OK"
    /\ attr_is_on_off(m)

\* zb_attribute_handler, lines 119-151
zb_attribute_handler(m) ==
    /\ ret' = zb_attribute_handler_ret(m)
    /\ IF attr_accepted(m) /\ s_on_off_callback # "NULL"
       THEN /\ cb_calls' = <<[cb |-> s_on_off_callback, on |-> on_off_value(m)]>>
            /\ call_callback(s_on_off_callback, on_off_value(m))
       ELSE /\ cb_calls' = <<>>
            /\ gpio_writes' = <<>>
            /\ UNCHANGED <<s_relay_state, gpio_level, gpio_output, hist>>

\* zb_zdo_signal_handler, lines 50-109: the begin-steering commands it issues
\* a variant of signal_steer_cmds that begins steering on a stack-ready signal
\* only when its status is success
signal_steer_cmds_ok_only(sig) ==
    IF sig.status = "ESP_OK" /\ (sig.type = "SKIP_STARTUP" \/ sig.factory_new)
    THEN 1
    ELSE 0

\* a variant of signal_steer_cmds that steers after every successful start
signal_steer_cmds_always_steers(sig) ==
    IF sig.type = "SKIP_STARTUP" THEN 1
    ELSE IF sig.type \in StartSignals /\ sig.status = "ESP_OK" THEN 1
    ELSE 0

\* a variant of signal_steer_cmds that also steers again at once when steering
\* failed
signal_steer_cmds_retries_at_once(sig) ==
    IF sig.type = "SKIP_STARTUP" THEN 1
    ELSE IF sig.type \in StartSignals
         THEN (IF sig.status = "ESP_OK" /\ sig.factory_new THEN 1 ELSE 0)
    ELSE IF sig.type = "STEERING" /\ sig.status # "ESP_OK" THEN 1
    ELSE 0

\* a variant of signal_steer_cmds that steers again when steering succeeded
signal_steer_cmds_after_join(sig) ==
    IF sig.type = "SKIP_STARTUP" THEN 1
    ELSE IF sig.type \in StartSignals
         THEN (IF sig.status = "ESP_OK" /\ sig.factory_new THEN 1 ELSE 0)
    ELSE IF sig.type = "STEERING" /\ sig.status = "ESP_OK" THEN 1
    ELSE 0

signal_steer_cmds(sig) ==
    IF sig.type = "SKIP_STARTUP" THEN 1
    ELSE IF sig.type \in StartSignals
         THEN (IF sig.status = "ESP_OK" /\ sig.factory_new THEN 1 ELSE 0)
    ELSE 0

\* zb_zdo_signal_handler: the alarms it schedules
\* a variant of signal_alarms that gives up steering after four failures
signal_alarms_gives_up(sig) ==
    IF sig.type \in StartSignals /\ sig.status # "ESP_OK"
    THEN <<StartupRetryDelay>>
    ELSE IF sig.type = "STEERING" /\ sig.status # "ESP_OK" /\ h_steer_fail < 4
    THEN <<SteeringRetryDelay>>
    ELSE <<>>

\* a variant of signal_alarms that arms no retry for a failed start
signal_alarms_no_startup_retry(sig) ==
    IF sig.type = "STEERING" /\ sig.status # "ESP_OK"
    THEN <<SteeringRetryDelay>>
    ELSE <<>>

\* a variant of signal_alarms that retries after a failure status of any signal
signal_alarms_any_failure(sig) ==
    IF sig.status = "ESP_OK" THEN <<>>
    ELSE IF sig.type \in StartSignals THEN <<StartupRetryDelay>>
    ELSE <<SteeringRetryDelay>>

\* a variant of signal_alarms with the steering delay for every retry
signal_alarms_one_delay(sig) ==
    IF sig.status # "ESP_OK" /\ sig.type \in StartSignals \cup {"STEERING"}
    THEN <<SteeringRetryDelay>>
    ELSE <<>>

signal_alarms(sig) ==
    IF sig.type \in StartSignals /\ sig.status # "ESP_OK"
    THEN <<StartupRetryDelay>>
    ELSE IF sig.type = "STEERING" /\ sig.status # "ESP_OK"
    THEN <<SteeringRetryDelay>>
    ELSE <<>>

zb_zdo_signal_handler(sig) ==
    /\ steer_cmds' = signal_steer_cmds(sig)
    /\ alarms' = alarms \o signal_alarms(sig)

\* a variant of signal_log that reports a steering signal as a join whatever
\* its status
signal_log_ignores_status(sig) ==
    IF sig.type = "SKIP_STARTUP" THEN "Zigbee stack initialized"
    ELSE IF sig.type \in StartSignals
         THEN (IF sig.status = "ESP_OK"
               THEN (IF sig.factory_new THEN "Start network steering"
                     ELSE "Device already commissioned, rejoining network")
               ELSE "Device startup failed, retrying")
    ELSE IF sig.type = "STEERING" THEN "Joined network successfully"
    ELSE "ZDO signal"

\* zb_zdo_signal_handler: the line it logs, by the branch taken (lines 58, 71,
\* 74, 77, 88, 96 and 104)
signal_log(sig) ==
    IF sig.type = "SKIP_STARTUP" THEN "Zigbee stack initialized"
    ELSE IF sig.type \in StartSignals
         THEN (IF sig.status = "ESP_OK"
               THEN (IF sig.factory_new THEN "Start network steering"
                     ELSE "Device already commissioned, rejoining network")
               ELSE "Device startup failed, retrying")
    ELSE IF sig.type = "STEERING"
         THEN (IF sig.status = "ESP_OK" THEN "Joined network successfully"
               ELSE "Network steering failed")
    ELSE "ZDO signal"

\* The handler keeps no variable for the join progress: what it knows of it
\* is the branch it took, which it logs.  The names of the join status are
\* those of the design's JoinStatus, one for each report; a signal the handler
\* only traces leaves the status as it is.
join_status_of(line, cur) ==
    CASE line = "Zigbee stack initialized" -> "Commissioning"
      [] line = "Start network steering" -> "Steering"
      [] line = "Device already commissioned, rejoining network" -> "Joined"
      [] line = "Device startup failed, retrying" -> "StartupFailed"
      [] line = "Joined network successfully" -> "Joined"
      [] line = "Network steering failed" -> "SteeringFailed"
      [] OTHER -> cur

\* the status once a retry alarm has fired and steering was begun again
join_status_retry == "Steering"

\* zigbee_handler_set_on_off_attribute, lines 325-332: the request made with
\* esp_zb_zcl_set_attribute_val
set_on_off_attribute_request(on) ==
    [endpoint |-> ZIGBEE_ENDPOINT, cluster |-> "ON_OFF", role |-> "SERVER",
     attr_id |-> "ON_OFF_ON_OFF", value |-> on, check |-> FALSE]

\* a variant of set_on_off_attribute_writes that asks again when refused
set_on_off_attribute_writes_retry(on, status) ==
    IF status = "SUCCESS" THEN <<set_on_off_attribute_request(on)>>
    ELSE <<set_on_off_attribute_request(on), set_on_off_attribute_request(on)>>

\* the requests made when the stack answers status
set_on_off_attribute_writes(on, status) == <<set_on_off_attribute_request(on)>>

\* lines 334-339
set_on_off_attribute_ret(status) ==
    IF status = "SUCCESS" THEN "ESP_OK" ELSE "ESP_FAIL"

\* zigbee_handler_set_on_off_attribute, lines 321-340
zigbee_handler_set_on_off_attribute(on, status) ==
    /\ attr_writes' = set_on_off_attribute_writes(on, status)
    /\ ret' = set_on_off_attribute_ret(status)

\* a variant of zigbee_handler_register_on_off_callback where the first
\* registration stays
zigbee_handler_register_on_off_callback_keeps_first(callback) ==
    s_on_off_callback' = IF s_on_off_callback = "NULL" THEN callback
                         ELSE s_on_off_callback

\* zigbee_handler_register_on_off_callback, lines 342-346
zigbee_handler_register_on_off_callback(callback) ==
    s_on_off_callback' = callback

RemoveAt(s, i) == SubSeq(s, 1, i - 1) \o SubSeq(s, i + 1, Len(s))

\* nothing of the join is known yet: no report, no failure, no alarm
JoinInit ==
    /\ join_status = "Uninitialized"
    /\ h_steer_fail = 0
    /\ h_pending = <<>>
    /\ h_scn = [on |-> TRUE, pos |-> 0, cmds |-> 0]
    /\ h_steering = FALSE

\* no context is inside a relay function
NoCtx == [T |-> [pc |-> "idle", on |-> FALSE], S |-> [pc |-> "idle", on |-> FALSE]]

\* no attribute written, no event dropped
ApiInit ==
    /\ attr_writes = <<>>
    /\ h_dropped = "none"
    /\ h_prev_cb = "NULL"
    /\ ctx = NoCtx

(***************************************************************************)
(* The whole program                                                       *)
(***************************************************************************)
\* the state in which setup() starts: statics as initialized (relay.c line 19,
\* zigbee_handler.c line 26), the pin not yet driven, at level lvl
Boot(lvl) ==
    /\ s_relay_state' = FALSE
    /\ s_on_off_callback' = "NULL"
    /\ gpio_level' = lvl
    /\ gpio_output' = FALSE
    /\ zb_handlers' = FALSE
    /\ alarms' = <<>>
    /\ pc' = "nvs_flash_init"
    /\ op' = "boot"
    /\ arg' = NoArg
    /\ ret' = "none"
    /\ cb_calls' = <<>>
    /\ gpio_writes' = <<>>
    /\ steer_cmds' = 0
    /\ hist' = <<>>
    /\ h_true' = FALSE
    /\ h_prev_on' = s_relay_state
    /\ join_status' = "Uninitialized"
    /\ h_steer_fail' = 0
    /\ h_pending' = <<>>
    /\ h_scn' = [on |-> TRUE, pos |-> 0, cmds |-> 0]
    /\ h_steering' = FALSE
    /\ attr_writes' = <<>>
    /\ h_dropped' = "none"
    /\ h_prev_cb' = "NULL"
    /\ ctx' = NoCtx
    /\ UNCHANGED RELAY_ACTIVE_LEVEL

Init ==
    /\ RELAY_ACTIVE_LEVEL \in {0, 1}
    /\ s_relay_state = FALSE
    /\ s_on_off_callback = "NULL"
    /\ gpio_level \in Levels
    /\ gpio_output = FALSE
    /\ zb_handlers = FALSE
    /\ alarms = <<>>
    /\ pc = "nvs_flash_init"
    /\ op = "boot"
    /\ arg = NoArg
    /\ ret = "none"
    /\ cb_calls = <<>>
    /\ gpio_writes = <<>>
    /\ steer_cmds = 0
    /\ hist = <<>>
    /\ h_true = FALSE
    /\ h_prev_on = FALSE
    /\ JoinInit
    /\ ApiInit

\* crash, abort or power cycle, at any point
Restart == \E lvl \in Levels : Boot(lvl)

\* a step of setup() that touches neither the relay nor the handler
SetupStep(name, r, next) ==
    /\ pc' = next
    /\ op' = name
    /\ arg' = NoArg
    /\ ret' = r
    /\ cb_calls' = <<>>
    /\ steer_cmds' = 0
    /\ UNCHANGED <<RELAY_ACTIVE_LEVEL, h_true, h_prev_on, joinVars, apiVars>>

\* setup(), lines 82-88: ESP_ERROR_CHECK aborts when NVS cannot be initialized
Setup_nvs_flash_init ==
    /\ pc = "nvs_flash_init"
    /\ \E ok \in BOOLEAN :
          IF ok
          THEN /\ SetupStep("nvs_flash_init", "ESP_OK", "relay_init")
               /\ gpio_writes' = <<>>
               /\ UNCHANGED <<s_relay_state, gpio_level, gpio_output, hist, zigbeeVars>>
          ELSE Restart

\* a variant of Setup_relay_init that goes on whatever relay_init returned
Setup_relay_init_ignores_failure ==
    /\ pc = "relay_init"
    /\ \E cfg \in {"ESP_OK", "ESP_FAIL"} :
          /\ hist' = RelayCall("relay_init", FALSE)
          /\ relay_init(cfg)
          /\ SetupStep("relay_init", relay_init_ret(cfg), "zigbee_handler_init")
          /\ UNCHANGED zigbeeVars

\* setup(), lines 97-101
Setup_relay_init ==
    /\ pc = "relay_init"
    /\ \E cfg \in {"ESP_OK", "ESP_FAIL"} :
          /\ hist' = RelayCall("relay_init", FALSE)
          /\ relay_init(cfg)
          /\ SetupStep("relay_init", relay_init_ret(cfg),
                       IF relay_init_ret(cfg) # "ESP_OK" THEN "returned"
                       ELSE "zigbee_handler_init")
          /\ UNCHANGED zigbeeVars

\* setup(), lines 110-114, and zigbee_handler_init (zigbee_handler.c, lines
\* 263-308): ESP_ERROR_CHECK aborts when the platform cannot be configured,
\* otherwise the handlers are registered and the result is ESP_OK
Setup_zigbee_handler_init ==
    /\ pc = "zigbee_handler_init"
    /\ \E ok \in BOOLEAN :
          IF ok
          THEN /\ zb_handlers' = TRUE
               /\ SetupStep("zigbee_handler_init", "ESP_OK", "register_callback")
               /\ gpio_writes' = <<>>
               /\ UNCHANGED <<s_relay_state, gpio_level, gpio_output, hist,
                              s_on_off_callback, alarms>>
          ELSE Restart

\* a variant of Setup_register_callback that leaves the slot empty
Setup_register_callback_skipped ==
    /\ pc = "register_callback"
    /\ SetupStep("register_callback", "none", "zigbee_handler_start")
    /\ gpio_writes' = <<>>
    /\ UNCHANGED <<s_relay_state, gpio_level, gpio_output, hist, zigbeeVars>>

\* setup(), line 119
Setup_register_callback ==
    /\ pc = "register_callback"
    /\ zigbee_handler_register_on_off_callback("on_zigbee_on_off_command")
    /\ SetupStep("register_callback", "none", "zigbee_handler_start")
    /\ gpio_writes' = <<>>
    /\ UNCHANGED <<s_relay_state, gpio_level, gpio_output, hist, zb_handlers, alarms>>

\* setup(), line 141, and zigbee_handler_start (zigbee_handler.c, lines
\* 310-319): ESP_ERROR_CHECK aborts when the stack does not start, otherwise
\* the main loop is entered and never left
Setup_zigbee_handler_start ==
    /\ pc = "zigbee_handler_start"
    /\ \E ok \in BOOLEAN :
          IF ok
          THEN /\ SetupStep("zigbee_handler_start", "none", "main_loop")
               /\ gpio_writes' = <<>>
               /\ UNCHANGED <<s_relay_state, gpio_level, gpio_output, hist, zigbeeVars>>
          ELSE Restart

\* a variant of Stack_signal that switches the relay off on a failure status
Stack_signal_fails_off ==
    /\ pc = "main_loop"
    /\ zb_handlers
    /\ \E sig \in Signals :
          /\ Len(alarms) + Len(signal_alarms(sig)) <= MaxAlarms
          /\ zb_zdo_signal_handler(sig)
          /\ op' = "zb_zdo_signal_handler"
          /\ arg' = sig
          /\ IF sig.status # "ESP_OK"
             THEN /\ hist' = RelayCall("relay_set", FALSE)
                  /\ relay_set(FALSE)
             ELSE /\ gpio_writes' = <<>>
                  /\ UNCHANGED <<s_relay_state, gpio_level, gpio_output, hist>>
    /\ ret' = "none"
    /\ cb_calls' = <<>>
    /\ UNCHANGED <<RELAY_ACTIVE_LEVEL, s_on_off_callback, zb_handlers, pc, h_true,
                   h_prev_on, joinVars, apiVars>>

\* the stack delivers a signal to the registered signal handler
Stack_signal ==
    /\ pc = "main_loop"
    /\ zb_handlers
    /\ \E sig \in Signals :
          /\ Len(alarms) + Len(signal_alarms(sig)) <= MaxAlarms
          /\ zb_zdo_signal_handler(sig)
          /\ op' = "zb_zdo_signal_handler"
          /\ arg' = sig
    /\ ret' = "none"
    /\ cb_calls' = <<>>
    /\ gpio_writes' = <<>>
    /\ UNCHANGED <<RELAY_ACTIVE_LEVEL, s_relay_state, gpio_level, gpio_output,
                   s_on_off_callback, zb_handlers, pc, hist, h_true, h_prev_on, joinVars, apiVars>>

\* the stack delivers a set-attribute-value action: zb_action_handler, lines
\* 162-177, routes it to zb_attribute_handler
Stack_attribute_event ==
    /\ pc = "main_loop"
    /\ zb_handlers
    /\ \E m \in Messages :
          /\ zb_attribute_handler(m)
          /\ op' = "zb_attribute_handler"
          /\ arg' = m
          /\ h_true' = (h_true \/ (attr_accepted(m) /\ on_off_value(m)))
    /\ steer_cmds' = 0
    /\ UNCHANGED <<RELAY_ACTIVE_LEVEL, zigbeeVars, pc, h_prev_on, joinVars, apiVars>>

\* the stack delivers any other action: zb_action_handler's default branch
Stack_other_action ==
    /\ pc = "main_loop"
    /\ zb_handlers
    /\ op' = "zb_action_handler"
    /\ arg' = NoArg
    /\ ret' = "ESP_OK"
    /\ cb_calls' = <<>>
    /\ gpio_writes' = <<>>
    /\ steer_cmds' = 0
    /\ UNCHANGED <<RELAY_ACTIVE_LEVEL, s_relay_state, gpio_level, gpio_output,
                   zigbeeVars, pc, hist, h_true, h_prev_on, joinVars, apiVars>>

\* a scheduler alarm fires: esp_zb_bdb_start_top_level_commissioning(STEERING)
Stack_alarm ==
    /\ pc = "main_loop"
    /\ \E i \in 1..Len(alarms) :
          /\ alarms' = RemoveAt(alarms, i)
          /\ arg' = [kind |-> "alarm", delay |-> alarms[i]]
    /\ op' = "scheduler_alarm"
    /\ steer_cmds' = 1
    /\ ret' = "none"
    /\ cb_calls' = <<>>
    /\ gpio_writes' = <<>>
    /\ UNCHANGED <<RELAY_ACTIVE_LEVEL, s_relay_state, gpio_level, gpio_output,
                   s_on_off_callback, zb_handlers, pc, hist, h_true, h_prev_on, joinVars, apiVars>>

Next ==
    \/ Setup_nvs_flash_init
    \/ Setup_relay_init
    \/ Setup_zigbee_handler_init
    \/ Setup_register_callback
    \/ Setup_zigbee_handler_start
    \/ Stack_signal
    \/ Stack_attribute_event
    \/ Stack_other_action
    \/ Stack_alarm
    \/ Restart

Spec == Init /\ [][Next]_vars

(***************************************************************************)
(* The relay module alone: relay.h's four functions, called in any order   *)
(* from one context; relay_init first (relay.h: "Must be called once at    *)
(* startup before using other relay functions"), from any prior stored     *)
(* state and pin level, and possibly again later.                          *)
(***************************************************************************)
InitRelay ==
    /\ RELAY_ACTIVE_LEVEL \in {0, 1}
    /\ s_relay_state \in BOOLEAN
    /\ s_on_off_callback = "NULL"
    /\ gpio_level \in Levels
    /\ gpio_output = FALSE
    /\ zb_handlers = FALSE
    /\ alarms = <<>>
    /\ pc = "relay_api"
    /\ op = "boot"
    /\ arg = NoArg
    /\ ret = "none"
    /\ cb_calls = <<>>
    /\ gpio_writes = <<>>
    /\ steer_cmds = 0
    /\ hist = <<>>
    /\ h_true = FALSE
    /\ h_prev_on = FALSE
    /\ JoinInit
    /\ ApiInit

\* what a call of the relay module leaves alone
RelayApiFrame ==
    /\ arg' = NoArg
    /\ UNCHANGED <<RELAY_ACTIVE_LEVEL, zigbeeVars, pc, cb_calls, steer_cmds, h_true,
                   h_prev_on, joinVars, apiVars>>

Call_relay_init ==
    /\ pc = "relay_api"
    /\ \E cfg \in {"ESP_OK", "ESP_FAIL"} :
          /\ hist' = RelayCall("relay_init", FALSE)
          /\ relay_init(cfg)
          /\ ret' = relay_init_ret(cfg)
    /\ op' = "relay_init"
    /\ RelayApiFrame

Call_relay_set ==
    /\ pc = "relay_api"
    /\ gpio_output
    /\ \E on \in BOOLEAN :
          /\ hist' = RelayCall("relay_set", on)
          /\ relay_set(on)
    /\ op' = "relay_set"
    /\ ret' = "none"
    /\ RelayApiFrame

Call_relay_toggle ==
    /\ pc = "relay_api"
    /\ gpio_output
    /\ hist' = RelayCall("relay_toggle", FALSE)
    /\ relay_toggle
    /\ op' = "relay_toggle"
    /\ ret' = "none"
    /\ RelayApiFrame

Call_relay_get_state ==
    /\ pc = "relay_api"
    /\ gpio_output
    /\ ret' = BoolName(relay_get_state)
    /\ op' = "relay_get_state"
    /\ gpio_writes' = <<>>
    /\ UNCHANGED <<s_relay_state, gpio_level, gpio_output, hist>>
    /\ RelayApiFrame

NextRelay ==
    \/ Call_relay_init
    \/ Call_relay_set
    \/ Call_relay_toggle
    \/ Call_relay_get_state

SpecRelay == InitRelay /\ [][NextRelay]_vars

(***************************************************************************)
(* The network session alone: the signal handler and the scheduler's       *)
(* alarms in the running main loop, driven by any sequence of signals,     *)
(* with time passing in steps of TickMs.  The relay is in either state and *)
(* no attribute event arrives.  An alarm fires once its delay has elapsed. *)
(***************************************************************************)
MaxFailures == 5        \* failed steering signals handled in a run
TickMs == StartupRetryDelay

\* the join scenario: stack ready, steering failed, the alarm fires, steering
\* succeeded
ScnEvent(pos) ==
    CASE pos = 1 -> "SKIP_STARTUP"
      [] pos = 2 -> "STEERING failed"
      [] pos = 3 -> "alarm"
      [] pos = 4 -> "STEERING ok"
      [] OTHER -> "none"

SignalEvent(sig) ==
    IF sig.type = "STEERING"
    THEN (IF sig.status = "ESP_OK" THEN "STEERING ok" ELSE "STEERING failed")
    ELSE sig.type

\* the scenario's progress after an event that issued n begin-steering commands
ScnStep(ev, n) ==
    IF h_scn.on /\ ScnEvent(h_scn.pos + 1) = ev
    THEN [on |-> TRUE, pos |-> h_scn.pos + 1, cmds |-> h_scn.cmds + n]
    ELSE [on |-> FALSE, pos |-> 0, cmds |-> 0]

InitJoin ==
    /\ RELAY_ACTIVE_LEVEL \in {0, 1}
    /\ s_relay_state \in BOOLEAN
    /\ gpio_level = relay_level(s_relay_state)
    /\ gpio_output = TRUE
    /\ s_on_off_callback = "on_zigbee_on_off_command"
    /\ zb_handlers = TRUE
    /\ alarms = <<>>
    /\ pc = "main_loop"
    /\ op = "zigbee_handler_start"
    /\ arg = NoArg
    /\ ret = "none"
    /\ cb_calls = <<>>
    /\ gpio_writes = <<>>
    /\ steer_cmds = 0
    /\ hist = <<>>
    /\ h_true = FALSE
    /\ h_prev_on = FALSE
    /\ JoinInit
    /\ ApiInit

\* what the session leaves alone
JoinFrame ==
    /\ ret' = "none"
    /\ cb_calls' = <<>>
    /\ gpio_writes' = <<>>
    /\ UNCHANGED <<RELAY_ACTIVE_LEVEL, s_relay_state, gpio_level, gpio_output,
                   s_on_off_callback, zb_handlers, pc, hist, h_true, h_prev_on,
                   apiVars>>

SteeringFailure(sig) == sig.type = "STEERING" /\ sig.status # "ESP_OK"

\* the stack calls the handler with signal sig; steering is in progress from a
\* begin-steering command until the steering-complete signal
Deliver(sig) ==
    /\ pc = "main_loop"
    /\ zb_handlers
    /\ Len(alarms) + Len(signal_alarms(sig)) <= MaxAlarms
    /\ SteeringFailure(sig) => h_steer_fail < MaxFailures
    /\ zb_zdo_signal_handler(sig)
    /\ op' = "zb_zdo_signal_handler"
    /\ arg' = sig
    /\ join_status' = join_status_of(signal_log(sig), join_status)
    /\ h_steer_fail' = h_steer_fail + (IF SteeringFailure(sig) THEN 1 ELSE 0)
    /\ h_pending' = h_pending \o
          [i \in 1..Len(signal_alarms(sig)) |-> [cause |-> sig.type, age |-> 0]]
    /\ h_scn' = ScnStep(SignalEvent(sig), signal_steer_cmds(sig))
    /\ h_steering' = IF signal_steer_cmds(sig) > 0 THEN TRUE
                     ELSE IF sig.type = "STEERING" THEN FALSE
                     ELSE h_steering
    /\ JoinFrame

\* the stack delivers any signal
Join_signal == \E sig \in Signals : Deliver(sig)

\* an alarm whose delay has elapsed fires:
\* esp_zb_bdb_start_top_level_commissioning(STEERING)
Join_alarm ==
    /\ pc = "main_loop"
    /\ \E i \in 1..Len(alarms) :
          /\ h_pending[i].age >= alarms[i]
          /\ alarms' = RemoveAt(alarms, i)
          /\ h_pending' = RemoveAt(h_pending, i)
          /\ arg' = [kind |-> "alarm", delay |-> alarms[i],
                     cause |-> h_pending[i].cause, age |-> h_pending[i].age]
    /\ op' = "scheduler_alarm"
    /\ steer_cmds' = 1
    /\ join_status' = join_status_retry
    /\ h_scn' = ScnStep("alarm", 1)
    /\ h_steering' = TRUE
    /\ UNCHANGED h_steer_fail
    /\ JoinFrame

\* TickMs pass with an alarm pending that is not yet due
Join_tick ==
    /\ pc = "main_loop"
    /\ \E i \in 1..Len(alarms) : h_pending[i].age < alarms[i]
    /\ h_pending' = [i \in 1..Len(h_pending) |->
                        [h_pending[i] EXCEPT !.age =
                            IF @ < alarms[i] THEN @ + TickMs ELSE @]]
    /\ op' = "tick"
    /\ arg' = NoArg
    /\ steer_cmds' = 0
    /\ UNCHANGED <<alarms, join_status, h_steer_fail, h_scn, h_steering>>
    /\ JoinFrame

NextJoin ==
    \/ Join_signal
    \/ Join_alarm
    \/ Join_tick

SpecJoin == InitJoin /\ [][NextJoin]_vars

(***************************************************************************)
(* The network session with a collaborator that answers: the stack reports *)
(* that it is ready, answers a begin-steering command with a steering-      *)
(* complete signal, and reports steering failure at most MaxFailures times. *)
(* Start, reboot and other signals arrive at any time.  The scheduler runs  *)
(* its alarms: time passes and a due alarm fires.                           *)
(***************************************************************************)
StackReady == [kind |-> "signal", type |-> "SKIP_STARTUP", status |-> "ESP_OK",
               factory_new |-> FALSE]

\* esp_zb_start: the stack signals that it is initialized
Live_stack_ready ==
    /\ join_status = "Uninitialized"
    /\ Deliver(StackReady)

\* the steering begun completes
Live_answer ==
    /\ h_steering
    /\ \E sig \in Signals : sig.type = "STEERING" /\ Deliver(sig)

\* a signal that answers no command
Live_unsolicited ==
    \E sig \in Signals : sig.type # "STEERING" /\ Deliver(sig)

NextLive ==
    \/ Live_stack_ready
    \/ Live_answer
    \/ Live_unsolicited
    \/ Join_alarm
    \/ Join_tick

SpecJoinLive ==
    /\ InitJoin
    /\ [][NextLive]_vars
    /\ WF_vars(Live_stack_ready)
    /\ WF_vars(Live_answer)
    /\ WF_vars(Join_alarm)
    /\ WF_vars(Join_tick)

(***************************************************************************)
(* The network session together with the command router: the join as the   *)
(* stack drives it (stack ready, start and reboot signals before steering   *)
(* is first begun, the completion of each steering begun, alarms and time), *)
(* and on/off attribute events arriving at any moment of it.                *)
(***************************************************************************)
\* the events for the on/off attribute of endpoint 10: a command for ON, one
\* for OFF, either with success or failure status
CommandEvents ==
    {m \in Messages :
        /\ m.present
        /\ m.dst_endpoint = ZIGBEE_ENDPOINT
        /\ m.cluster = "ON_OFF"
        /\ m.attr_id = "ON_OFF_ON_OFF"
        /\ m.type = "BOOL"
        /\ m.value # "NULL"}

\* the stack delivers a set-attribute-value action for the on/off attribute
Join_attribute_event ==
    /\ pc = "main_loop"
    /\ zb_handlers
    /\ \E m \in CommandEvents :
          /\ zb_attribute_handler(m)
          /\ arg' = m
          /\ h_true' = (h_true \/ (attr_accepted(m) /\ on_off_value(m)))
    /\ op' = "zb_attribute_handler"
    /\ steer_cmds' = 0
    /\ UNCHANGED <<RELAY_ACTIVE_LEVEL, zigbeeVars, pc, h_prev_on, joinVars, apiVars>>

\* a start or reboot signal, before steering was first begun
Join_start_signal ==
    /\ join_status \in {"Uninitialized", "StartupFailed"}
    /\ \E sig \in Signals : sig.type \in StartSignals /\ Deliver(sig)

NextJoinCmd ==
    \/ Live_stack_ready
    \/ Join_start_signal
    \/ Live_answer
    \/ Join_alarm
    \/ Join_tick
    \/ Join_attribute_event

SpecJoinCmd == InitJoin /\ [][NextJoinCmd]_vars

(***************************************************************************)
(* The zigbee_handler module alone, after zigbee_handler_init: callbacks   *)
(* are registered, the attribute is pushed and attribute events arrive, in *)
(* any order, with the relay initialized and in either state.              *)
(***************************************************************************)
InitZb ==
    /\ RELAY_ACTIVE_LEVEL \in {0, 1}
    /\ s_relay_state \in BOOLEAN
    /\ gpio_level = relay_level(s_relay_state)
    /\ gpio_output = TRUE
    /\ s_on_off_callback = "NULL"
    /\ zb_handlers = TRUE
    /\ alarms = <<>>
    /\ pc = "zb_api"
    /\ op = "zigbee_handler_init"
    /\ arg = NoArg
    /\ ret = "ESP_OK"
    /\ cb_calls = <<>>
    /\ gpio_writes = <<>>
    /\ steer_cmds = 0
    /\ hist = <<>>
    /\ h_true = FALSE
    /\ h_prev_on = FALSE
    /\ JoinInit
    /\ ApiInit

\* what no operation of the module's interface touches
ZbApiFrame ==
    /\ steer_cmds' = 0
    /\ UNCHANGED <<RELAY_ACTIVE_LEVEL, zb_handlers, alarms, pc, h_true, h_prev_on,
                   joinVars, ctx>>

Call_register_on_off_callback ==
    /\ pc = "zb_api"
    /\ \E cb \in Callbacks :
          /\ zigbee_handler_register_on_off_callback(cb)
          /\ arg' = [kind |-> "callback", cb |-> cb]
    /\ h_prev_cb' = s_on_off_callback
    /\ op' = "zigbee_handler_register_on_off_callback"
    /\ ret' = "none"
    /\ cb_calls' = <<>>
    /\ gpio_writes' = <<>>
    /\ attr_writes' = <<>>
    /\ UNCHANGED <<s_relay_state, gpio_level, gpio_output, hist, h_dropped>>
    /\ ZbApiFrame

Call_set_on_off_attribute ==
    /\ pc = "zb_api"
    /\ \E on \in BOOLEAN, status \in ZclStatuses :
          /\ zigbee_handler_set_on_off_attribute(on, status)
          /\ arg' = [kind |-> "push", on |-> on, status |-> status]
    /\ op' = "zigbee_handler_set_on_off_attribute"
    /\ cb_calls' = <<>>
    /\ gpio_writes' = <<>>
    /\ UNCHANGED <<s_relay_state, gpio_level, gpio_output, hist, h_dropped,
                   h_prev_cb, s_on_off_callback>>
    /\ ZbApiFrame

\* the stack delivers a set-attribute-value action
Zb_attribute_event ==
    /\ pc = "zb_api"
    /\ zb_handlers
    /\ \E m \in Messages :
          /\ zb_attribute_handler(m)
          /\ arg' = m
          /\ h_dropped' = IF attr_accepted(m) /\ s_on_off_callback = "NULL"
                          THEN BoolName(on_off_value(m))
                          ELSE h_dropped
    /\ op' = "zb_attribute_handler"
    /\ attr_writes' = <<>>
    /\ UNCHANGED <<s_on_off_callback, h_prev_cb>>
    /\ ZbApiFrame

NextZb ==
    \/ Call_register_on_off_callback
    \/ Call_set_on_off_attribute
    \/ Zb_attribute_event

SpecZb == InitZb /\ [][NextZb]_vars

(***************************************************************************)
(* relay_toggle in context T and relay_set(b) in context S, statement by   *)
(* statement, on an initialized relay.  relay.c takes no lock and masks no *)
(* interrupt, so a context can be preempted between any two statements.    *)
(* Each context is at "call" (not yet entered), "gpio" (about to write the *)
(* pin, with its argument on), "store" (about to store the state) or       *)
(* "done".                                                                 *)
(***************************************************************************)
Contexts == {"T", "S"}

InitRace ==
    /\ RELAY_ACTIVE_LEVEL \in {0, 1}
    /\ s_relay_state \in BOOLEAN
    /\ gpio_level = relay_level(s_relay_state)
    /\ gpio_output = TRUE
    /\ s_on_off_callback = "NULL"
    /\ zb_handlers = FALSE
    /\ alarms = <<>>
    /\ pc = "relay_race"
    /\ op = "relay_init"
    /\ arg = NoArg
    /\ ret = "none"
    /\ cb_calls = <<>>
    /\ gpio_writes = <<>>
    /\ steer_cmds = 0
    /\ hist = <<>>
    /\ h_true = FALSE
    /\ h_prev_on = FALSE
    /\ JoinInit
    /\ attr_writes = <<>>
    /\ h_dropped = "none"
    /\ h_prev_cb = "NULL"
    /\ \E b \in BOOLEAN :
          ctx = [T |-> [pc |-> "call", on |-> FALSE], S |-> [pc |-> "call", on |-> b]]

\* what a statement of relay.c leaves alone
RaceFrame(c, name) ==
    /\ op' = name
    /\ arg' = [kind |-> "context", c |-> c]
    /\ UNCHANGED <<RELAY_ACTIVE_LEVEL, gpio_output, zigbeeVars, pc, ret, cb_calls,
                   steer_cmds, hist, h_true, h_prev_on, joinVars, attr_writes,
                   h_dropped, h_prev_cb>>

\* relay_toggle, line 81: reads the stored state and calls relay_set(!s_relay_state)
Race_toggle_read ==
    /\ pc = "relay_race"
    /\ ctx.T.pc = "call"
    /\ ctx' = [ctx EXCEPT !.T = [pc |-> "gpio", on |-> ~s_relay_state]]
    /\ gpio_writes' = <<>>
    /\ UNCHANGED <<s_relay_state, gpio_level>>
    /\ RaceFrame("T", "relay_toggle")

\* the other context calls relay_set(b)
Race_set_call ==
    /\ pc = "relay_race"
    /\ ctx.S.pc = "call"
    /\ ctx' = [ctx EXCEPT !.S.pc = "gpio"]
    /\ gpio_writes' = <<>>
    /\ UNCHANGED <<s_relay_state, gpio_level>>
    /\ RaceFrame("S", "relay_set")

\* relay_set, lines 59-70: the level for the argument is written to the pin
Race_gpio_set_level ==
    /\ pc = "relay_race"
    /\ \E c \in Contexts :
          /\ ctx[c].pc = "gpio"
          /\ gpio_set_level(relay_level(ctx[c].on))
          /\ ctx' = [ctx EXCEPT ![c].pc = "store"]
          /\ RaceFrame(c, "gpio_set_level")
    /\ UNCHANGED s_relay_state

\* relay_set, line 73: s_relay_state = on
Race_store_state ==
    /\ pc = "relay_race"
    /\ \E c \in Contexts :
          /\ ctx[c].pc = "store"
          /\ s_relay_state' = ctx[c].on
          /\ ctx' = [ctx EXCEPT ![c].pc = "done"]
          /\ RaceFrame(c, "store_state")
    /\ gpio_writes' = <<>>
    /\ UNCHANGED gpio_level

NextRace ==
    \/ Race_toggle_read
    \/ Race_set_call
    \/ Race_gpio_set_level
    \/ Race_store_state

SpecRace == InitRace /\ [][NextRace]_vars

(***************************************************************************)
(* Properties                                                              *)
(***************************************************************************)
\* the levels the polarity assigns, as relay.h documents them: active-high
\* (RELAY_ACTIVE_LEVEL = 1) ON is 1 and OFF is 0, active-low the reverse
OffLevel == IF RELAY_ACTIVE_LEVEL = 1 THEN 0 ELSE 1
OnLevel == IF RELAY_ACTIVE_LEVEL = 1 THEN 1 ELSE 0

LastCall == hist[Len(hist)]
IsAttrStep == op = "zb_attribute_handler"

\* C1: in every boot, from the completion of relay_init until an attribute
\* event with value true has been accepted, the stored state is OFF, no other
\* level than OFF is written, and where relay_init succeeded the pin is at
\* the OFF level; restarts at any point, signals, alarms and what the boot
\* before left behind do not change that.
C1_OffUntilAcceptedTrue ==
    (pc \notin {"nvs_flash_init", "relay_init"} /\ ~h_true) =>
        /\ s_relay_state = FALSE
        /\ gpio_output => gpio_level = OffLevel
        /\ \A i \in 1..Len(gpio_writes) : gpio_writes[i] = OffLevel

\* a boot that followed a restart with the relay ON, the pin having been left
\* at the ON level, has joined the network and the relay is still OFF
C1_Witness ==
    /\ h_prev_on
    /\ pc = "main_loop"
    /\ ~h_true
    /\ hist # <<>>
    /\ hist[1].op = "relay_init"
    /\ hist[1].level = OnLevel
    /\ op = "zb_zdo_signal_handler"
    /\ arg.type = "STEERING"
    /\ arg.status = "ESP_OK"
    /\ s_relay_state = FALSE
    /\ gpio_level = OffLevel

\* C2: after a successful relay_init, relay_get_state() is false and the last
\* level written to the pin is the OFF level of the polarity, whatever the
\* stored state and the pin level were before.
C2_InitForcesOff ==
    (op = "relay_init" /\ ret = "ESP_OK") =>
        /\ relay_get_state = FALSE
        /\ gpio_writes # <<>>
        /\ gpio_writes[Len(gpio_writes)] = OffLevel
        /\ gpio_level = OffLevel

\* relay_init succeeded on a relay that was stored ON with the pin at ON
C2_Witness ==
    /\ op = "relay_init"
    /\ ret = "ESP_OK"
    /\ LastCall.op = "relay_init"
    /\ LastCall.state = TRUE
    /\ LastCall.level = OnLevel
    /\ relay_get_state = FALSE

\* C3: relay_init completes before zigbee_handler_init, the callback is
\* registered before zigbee_handler_start, and no signal and no attribute
\* event is processed with the relay uninitialized or the slot empty.
C3_StartupOrdering ==
    /\ zb_handlers => gpio_output
    /\ pc = "main_loop" => (zb_handlers /\ s_on_off_callback # "NULL")
    /\ op \in {"zb_zdo_signal_handler", "zb_attribute_handler", "scheduler_alarm"} =>
          (gpio_output /\ s_on_off_callback # "NULL")

\* an accepted attribute event reached the callback
C3_Witness ==
    /\ IsAttrStep
    /\ attr_accepted(arg)
    /\ cb_calls # <<>>
    /\ gpio_output

\* C4: an attribute event with a status other than success, whatever its
\* endpoint, cluster, attribute and value, does not invoke the callback,
\* leaves the relay state and the pin level as they were and returns an error.
C4_FailedStatusDiscarded ==
    [][(op' = "zb_attribute_handler" /\ arg'.present /\ arg'.status # "SUCCESS") =>
          /\ cb_calls' = <<>>
          /\ gpio_writes' = <<>>
          /\ UNCHANGED <<s_relay_state, gpio_level>>
          /\ ret' # "ESP_OK"]_vars

\* a failed event that names the on/off attribute and asks for OFF was
\* handled with the relay ON
C4_Witness ==
    /\ IsAttrStep
    /\ arg.present
    /\ arg.status = "FAIL"
    /\ arg.dst_endpoint = ZIGBEE_ENDPOINT
    /\ arg.cluster = "ON_OFF"
    /\ arg.attr_id = "ON_OFF_ON_OFF"
    /\ arg.type = "BOOL"
    /\ arg.value = "false"
    /\ s_relay_state = TRUE
    /\ ret = "ESP_ERR_INVALID_ARG"

\* the success events for endpoint 10, On/Off cluster, OnOff attribute
MatchesIdentity(m) ==
    /\ m.present
    /\ m.status = "SUCCESS"
    /\ m.dst_endpoint = 10
    /\ m.cluster = "ON_OFF"
    /\ m.attr_id = "ON_OFF_ON_OFF"

InvokedOnceWith(m) ==
    /\ Len(cb_calls) = 1
    /\ cb_calls[1].cb = s_on_off_callback
    /\ cb_calls[1].on = (m.value = "true")
    /\ ret = "ESP_OK"

\* C5 as stated: every success event for the configured endpoint, cluster
\* and attribute invokes the callback exactly once with the value as a bool,
\* an absent value as false, and is no error.
C5_Original == (IsAttrStep /\ MatchesIdentity(arg)) => InvokedOnceWith(arg)

\* C5, amended: every success event for the configured endpoint, cluster and
\* attribute whose data type is boolean invokes the callback exactly once
\* with the value as a bool, an absent value as false, and is no error.
C5_MatchInvokesOnce ==
    (IsAttrStep /\ MatchesIdentity(arg) /\ arg.type = "BOOL") => InvokedOnceWith(arg)

\* a matching event without a value was delivered as false
C5_Witness ==
    /\ IsAttrStep
    /\ MatchesIdentity(arg)
    /\ arg.type = "BOOL"
    /\ arg.value = "NULL"
    /\ cb_calls = <<[cb |-> "on_zigbee_on_off_command", on |-> FALSE]>>
    /\ ret = "ESP_OK"

OnEvent ==
    [kind |-> "message", present |-> TRUE, status |-> "SUCCESS", dst_endpoint |-> 10,
     cluster |-> "ON_OFF", attr_id |-> "ON_OFF_ON_OFF", type |-> "BOOL",
     value |-> "true"]

\* C6: with the relay initialized OFF and the callback wired, handling the
\* event {endpoint 10, on_off, on_off, success, true} leaves relay_get_state()
\* true and writes the pin exactly once, at the ON level of the polarity.
C6_EndToEndOn ==
    [][(/\ gpio_output
        /\ s_relay_state = FALSE
        /\ gpio_level = OffLevel
        /\ s_on_off_callback = "on_zigbee_on_off_command"
        /\ op' = "zb_attribute_handler"
        /\ arg' = OnEvent) =>
          /\ relay_get_state' = TRUE
          /\ gpio_writes' = <<OnLevel>>
          /\ gpio_level' = OnLevel]_vars

\* the event was handled as the first thing after relay_init
C6_Witness ==
    /\ IsAttrStep
    /\ arg = OnEvent
    /\ Len(hist) = 2
    /\ hist[1].op = "relay_init"
    /\ hist[2].op = "relay_set"
    /\ hist[2].state = FALSE
    /\ relay_get_state = TRUE
    /\ gpio_writes = <<OnLevel>>

\* C7: a success event whose endpoint, cluster or attribute is not the
\* configured one does not invoke the callback, leaves the relay state and
\* the pin level as they were, and returns success.
C7_MismatchIsNoOp ==
    [][(/\ op' = "zb_attribute_handler"
        /\ arg'.present
        /\ arg'.status = "SUCCESS"
        /\ \/ arg'.dst_endpoint # 10
           \/ arg'.cluster # "ON_OFF"
           \/ arg'.attr_id # "ON_OFF_ON_OFF") =>
          /\ cb_calls' = <<>>
          /\ gpio_writes' = <<>>
          /\ UNCHANGED <<s_relay_state, gpio_level>>
          /\ ret' = "ESP_OK"]_vars

\* an OFF command for the on/off attribute of another endpoint was handled
\* with the relay ON
C7_Witness ==
    /\ IsAttrStep
    /\ arg.present
    /\ arg.status = "SUCCESS"
    /\ arg.dst_endpoint = OtherEndpoint
    /\ arg.cluster = "ON_OFF"
    /\ arg.attr_id = "ON_OFF_ON_OFF"
    /\ arg.type = "BOOL"
    /\ arg.value = "false"
    /\ s_relay_state = TRUE
    /\ ret = "ESP_OK"

\* the state the most recent relay call asks for
Commanded ==
    IF LastCall.op = "relay_set" THEN LastCall.arg
    ELSE IF LastCall.op = "relay_toggle" THEN ~LastCall.state
    ELSE FALSE

LastCallDecides ==
    /\ hist # <<>>
    /\ LastCall.op \in {"relay_set", "relay_toggle"}

\* C8: after relay_init, relay_get_state() returns what the most recent call
\* set: b after relay_set(b), the negation of the state before after
\* relay_toggle(); relay_get_state itself changes nothing.
C8_GetReflectsLastCall ==
    /\ [](LastCallDecides =>
            /\ relay_get_state = Commanded
            /\ op = "relay_get_state" => ret = (IF Commanded THEN "true" ELSE "false"))
    /\ [][op' = "relay_get_state" =>
            /\ gpio_writes' = <<>>
            /\ UNCHANGED <<s_relay_state, gpio_level, gpio_output, hist>>]_vars

\* relay_get_state returned true after relay_set(false) and a relay_toggle
C8_Witness ==
    /\ op = "relay_get_state"
    /\ ret = "true"
    /\ Len(hist) = 2
    /\ hist[1].op = "relay_set"
    /\ hist[1].arg = FALSE
    /\ hist[2].op = "relay_toggle"
    /\ hist[2].state = FALSE

\* C9: after relay_init and after each relay_set or relay_toggle, the pin is
\* at the level the polarity assigns to the stored state (active-high: 1 iff
\* ON; active-low: 0 iff ON), and relay_init writes the level that
\* relay_set(false) writes.
C9_LevelFollowsState ==
    /\ gpio_output =>
          /\ RELAY_ACTIVE_LEVEL = 1 => (gpio_level = 1 <=> s_relay_state)
          /\ RELAY_ACTIVE_LEVEL = 0 => (gpio_level = 0 <=> s_relay_state)
          /\ gpio_writes # <<>> => gpio_writes[Len(gpio_writes)] = gpio_level
    /\ (op = "relay_init" /\ ret = "ESP_OK") => gpio_writes = <<OffLevel>>
    /\ (op = "relay_set" /\ LastCall.arg = FALSE) => gpio_writes = <<OffLevel>>

\* an active-low relay was toggled ON and the pin is at 0
C9_Witness ==
    /\ RELAY_ACTIVE_LEVEL = 0
    /\ gpio_output
    /\ op = "relay_toggle"
    /\ s_relay_state = TRUE
    /\ gpio_level = 0

\* C10: two consecutive relay_toggle calls restore the stored state and the
\* pin level that held before the first of them.
C10_ToggleTwiceRestores ==
    (/\ Len(hist) >= 2
     /\ hist[Len(hist) - 1].op = "relay_toggle"
     /\ hist[Len(hist)].op = "relay_toggle") =>
        /\ s_relay_state = hist[Len(hist) - 1].state
        /\ gpio_level = hist[Len(hist) - 1].level

\* two toggles were made from ON
C10_Witness ==
    /\ Len(hist) >= 2
    /\ hist[Len(hist) - 1].op = "relay_toggle"
    /\ hist[Len(hist)].op = "relay_toggle"
    /\ hist[Len(hist) - 1].state = TRUE
    /\ op = "relay_toggle"
    /\ s_relay_state = TRUE

\* the step handled signal sig / fired an alarm / let time pass
HandledSignal == op' = "zb_zdo_signal_handler"
FiredAlarm == op' = "scheduler_alarm"

\* a signal that reports network membership: steering complete with success,
\* or a successful start or reboot of a device that is not factory-new
JoinsNetwork(sig) ==
    /\ sig.status = "ESP_OK"
    /\ \/ sig.type = "STEERING"
       \/ sig.type \in StartSignals /\ ~sig.factory_new

\* C11: the join status is Joined only through a success-status
\* steering-complete signal or a success-status start/reboot signal of a
\* device that is not factory-new: a step into or within Joined either handles
\* such a signal, or it handles an unrecognized signal or lets time pass with
\* the status already Joined.  No failure-status signal, stack-ready signal or
\* timer firing ends in Joined.
C11_JoinedOnlyBySuccess ==
    [][join_status' = "Joined" =>
          \/ HandledSignal /\ JoinsNetwork(arg')
          \/ /\ join_status = "Joined"
             /\ \/ HandledSignal /\ arg'.type = "OTHER"
                \/ op' = "tick"]_vars

\* Joined reached by a steering success that follows a failure
C11_Witness ==
    /\ join_status = "Joined"
    /\ op = "zb_zdo_signal_handler"
    /\ arg.type = "STEERING"
    /\ h_steer_fail > 0

\* the number of armed alarms that a signal of one of the types armed
PendingFor(types) ==
    Cardinality({i \in 1..Len(h_pending) : h_pending[i].cause \in types})

StartupFailure(sig) == sig.type \in StartSignals /\ sig.status # "ESP_OK"

\* C12: a failure-status start or reboot signal issues no begin_steering while
\* it is handled and arms one more alarm, of exactly 1000 ms; an alarm armed
\* by such a signal fires only when 1000 ms have elapsed, issues exactly one
\* begin_steering and is gone afterwards; nothing else arms or removes such an
\* alarm.  So each failure is answered by one begin_steering, after the delay.
C12_StartupRetryOnce ==
    [][/\ (HandledSignal /\ StartupFailure(arg')) =>
              /\ steer_cmds' = 0
              /\ alarms' = Append(alarms, StartupRetryDelay)
              /\ StartupRetryDelay = 1000
              /\ PendingFor(StartSignals)' = PendingFor(StartSignals) + 1
       /\ (FiredAlarm /\ arg'.cause \in StartSignals) =>
              /\ arg'.delay = 1000
              /\ arg'.age >= 1000
              /\ steer_cmds' = 1
              /\ PendingFor(StartSignals)' = PendingFor(StartSignals) - 1
              /\ Len(alarms') = Len(alarms) - 1
       /\ ~(HandledSignal /\ StartupFailure(arg')) /\
          ~(FiredAlarm /\ arg'.cause \in StartSignals) =>
              PendingFor(StartSignals)' = PendingFor(StartSignals)]_vars

\* the alarm of a failed start fires and begins steering
C12_Witness ==
    /\ op = "scheduler_alarm"
    /\ arg.cause \in StartSignals
    /\ arg.delay = StartupRetryDelay
    /\ steer_cmds = 1
    /\ PendingFor(StartSignals) = 0

\* C13: a failure-status steering-complete signal arms one more alarm, of
\* exactly 2000 ms, however many failures came before it; the count of
\* failures grows by one with each and stops nothing; an alarm armed by such a
\* signal fires when 2000 ms have elapsed and issues exactly one
\* begin_steering, after the fifth failure as after the first.
C13_SteeringRetryForever ==
    [][/\ (HandledSignal /\ SteeringFailure(arg')) =>
              /\ steer_cmds' = 0
              /\ alarms' = Append(alarms, SteeringRetryDelay)
              /\ SteeringRetryDelay = 2000
              /\ h_steer_fail' = h_steer_fail + 1
              /\ PendingFor({"STEERING"})' = PendingFor({"STEERING"}) + 1
       /\ (FiredAlarm /\ arg'.cause = "STEERING") =>
              /\ arg'.delay = 2000
              /\ arg'.age >= 2000
              /\ steer_cmds' = 1
              /\ PendingFor({"STEERING"})' = PendingFor({"STEERING"}) - 1
       /\ ~(HandledSignal /\ SteeringFailure(arg')) =>
              h_steer_fail' = h_steer_fail]_vars

\* the retry of the fifth steering failure begins steering
C13_Witness ==
    /\ op = "scheduler_alarm"
    /\ arg.cause = "STEERING"
    /\ arg.delay = SteeringRetryDelay
    /\ h_steer_fail >= 5
    /\ steer_cmds = 1
    /\ alarms = <<>>

FailureHandled ==
    /\ op = "zb_zdo_signal_handler"
    /\ arg.status # "ESP_OK"
    /\ arg.type \in StartSignals \cup {"STEERING"}

RetryFired == op = "scheduler_alarm" /\ steer_cmds = 1

\* C14: there is no terminal failure state.  With the scheduler firing its
\* alarms, every failure-status start, reboot or steering signal handled is
\* eventually followed by the begin_steering of a retry alarm; and with a
\* collaborator that answers each begin_steering with a steering-complete
\* signal and reports failure only finitely often, the status is Joined
\* again and again, whatever state the session is in.
C14_NoTerminalFailure ==
    /\ FailureHandled ~> RetryFired
    /\ []<>(join_status = "Joined")

\* Joined by the answer to a retry, after failures of steering
C14_Witness ==
    /\ join_status = "Joined"
    /\ op = "zb_zdo_signal_handler"
    /\ arg.type = "STEERING"
    /\ h_steer_fail >= 2
    /\ h_scn.on = FALSE

\* C15: at most one retry alarm is outstanding at any time: a failure signal
\* that arms a retry while an earlier one is pending replaces it, so that the
\* failures handled before any alarm fires are answered by one begin_steering.
\* (The handler arms with esp_zb_scheduler_alarm and never cancels: this is
\* the statement that fails.)
C15_AtMostOneTimer == Len(alarms) <= 1

\* C16: handling a stack-ready signal issues exactly one begin_steering, in
\* the handling itself and with no alarm armed, and the status after it is
\* Commissioning: the first one moves it there from Uninitialized.
C16_StackReadyBeginsSteering ==
    [][(HandledSignal /\ arg'.type = "SKIP_STARTUP") =>
          /\ steer_cmds' = 1
          /\ alarms' = alarms
          /\ h_pending' = h_pending
          /\ join_status' = "Commissioning"]_vars

\* the first signal of the session is stack-ready: Uninitialized to
\* Commissioning with one command
C16_Witness ==
    /\ op = "zb_zdo_signal_handler"
    /\ arg.type = "SKIP_STARTUP"
    /\ h_scn = [on |-> TRUE, pos |-> 1, cmds |-> 1]
    /\ join_status = "Commissioning"
    /\ steer_cmds = 1
    /\ alarms = <<>>

StartupSuccess(sig) == sig.type \in StartSignals /\ sig.status = "ESP_OK"

\* C17: handling a success-status start or reboot signal of a factory-new
\* device issues exactly one begin_steering in the handling and the status
\* becomes Steering; of a device that is not factory-new, the status becomes
\* Joined and no begin_steering is issued; in neither case is an alarm armed.
C17_StartupSuccess ==
    [][(HandledSignal /\ StartupSuccess(arg')) =>
          /\ alarms' = alarms
          /\ h_pending' = h_pending
          /\ arg'.factory_new => steer_cmds' = 1 /\ join_status' = "Steering"
          /\ ~arg'.factory_new => steer_cmds' = 0 /\ join_status' = "Joined"]_vars

\* a commissioned device reboots while a retry is pending: Joined, no command
C17_Witness ==
    /\ op = "zb_zdo_signal_handler"
    /\ arg.type = "DEVICE_REBOOT"
    /\ arg.status = "ESP_OK"
    /\ ~arg.factory_new
    /\ join_status = "Joined"
    /\ steer_cmds = 0
    /\ Len(alarms) = 1

\* C18: handling a signal of a type other than stack-ready, start, reboot and
\* steering-complete, whatever its status, changes no join status, issues no
\* begin_steering, arms no alarm, and leaves the relay state, the pin and the
\* callback slot as they were, the callback not being invoked.
C18_OtherSignalIgnored ==
    [][(HandledSignal /\ arg'.type \notin {"SKIP_STARTUP", "STEERING"} \cup StartSignals) =>
          /\ join_status' = join_status
          /\ steer_cmds' = 0
          /\ alarms' = alarms
          /\ h_pending' = h_pending
          /\ s_relay_state' = s_relay_state
          /\ gpio_level' = gpio_level
          /\ gpio_writes' = <<>>
          /\ s_on_off_callback' = s_on_off_callback
          /\ cb_calls' = <<>>]_vars

\* an unrecognized signal with failure status, with the device joined, the
\* relay on and a retry pending
C18_Witness ==
    /\ op = "zb_zdo_signal_handler"
    /\ arg.type = "OTHER"
    /\ arg.status = "ESP_FAIL"
    /\ join_status = "Joined"
    /\ s_relay_state = TRUE
    /\ s_on_off_callback = "on_zigbee_on_off_command"
    /\ Len(alarms) = 1

\* C19: the join scenario from the start of the session.  After the
\* stack-ready signal exactly one begin_steering has been issued; after the
\* steering failure that follows, one alarm of 2000 ms is armed, the status is
\* SteeringFailed with one failure counted, and no further begin_steering was
\* issued; the firing of the alarm issues exactly one more and the status is
\* Steering; the steering success that follows gives Joined with no further
\* begin_steering.
C19_JoinScenario ==
    h_scn.on =>
        /\ h_scn.pos = 1 =>
              /\ h_scn.cmds = 1 /\ steer_cmds = 1
              /\ alarms = <<>>
              /\ join_status = "Commissioning"
        /\ h_scn.pos = 2 =>
              /\ h_scn.cmds = 1 /\ steer_cmds = 0
              /\ alarms = <<2000>>
              /\ join_status = "SteeringFailed" /\ h_steer_fail = 1
        /\ h_scn.pos = 3 =>
              /\ h_scn.cmds = 2 /\ steer_cmds = 1
              /\ alarms = <<>>
              /\ join_status = "Steering"
        /\ h_scn.pos = 4 =>
              /\ h_scn.cmds = 2 /\ steer_cmds = 0
              /\ alarms = <<>>
              /\ join_status = "Joined"

\* the scenario run to its end
C19_Witness ==
    /\ h_scn = [on |-> TRUE, pos |-> 4, cmds |-> 2]
    /\ join_status = "Joined"
    /\ h_steer_fail = 1

\* the boot has got past both initializations
PastInit == pc \in {"register_callback", "zigbee_handler_start", "main_loop"}

\* C20: startup stops at an initialization failure.  The callback is
\* registered and zigbee_handler_start reached only after relay_init
\* configured the pin and zigbee_handler_init registered the handlers; a
\* failed relay_init makes setup return, and then the stack is never
\* initialized, the callback slot stays empty and nothing is processed until
\* the next boot; a failed zigbee_handler_init ends the boot with the slot
\* empty and the stack not started.
C20_StartupAborts ==
    /\ [](PastInit => gpio_output /\ zb_handlers)
    /\ [](s_on_off_callback # "NULL" => PastInit)
    /\ [](pc = "returned" =>
             /\ op = "relay_init" /\ ret # "ESP_OK"
             /\ ~zb_handlers
             /\ s_on_off_callback = "NULL"
             /\ alarms = <<>>)
    /\ [][/\ (op' = "relay_init" /\ ret' # "ESP_OK") => pc' = "returned"
          /\ pc = "returned" => op' = "boot"
          /\ pc = "zigbee_handler_init" =>
                \/ pc' = "register_callback" /\ ret' = "ESP_OK" /\ zb_handlers'
                \/ /\ op' = "boot"
                   /\ ~zb_handlers'
                   /\ s_on_off_callback' = "NULL"
                   /\ pc' = "nvs_flash_init"]_vars

\* setup has returned because relay_init failed, the pin not configured
C20_Witness ==
    /\ pc = "returned"
    /\ op = "relay_init"
    /\ ret # "ESP_OK"
    /\ ~gpio_output
    /\ ~zb_handlers
    /\ s_on_off_callback = "NULL"

PushedAttribute == op' = "zigbee_handler_set_on_off_attribute"

\* C21: zigbee_handler_set_on_off_attribute(on) makes exactly one write
\* request, for endpoint 10, the On/Off cluster and the OnOff attribute, with
\* value on; it returns ESP_OK exactly when the stack answers success and an
\* error otherwise; whatever the answer it asks once only, leaves the relay
\* state, the pin and the callback slot as they were and invokes no callback.
C21_PushOnceNoRetry ==
    [][PushedAttribute =>
          /\ Len(attr_writes') = 1
          /\ attr_writes'[1].endpoint = 10
          /\ attr_writes'[1].cluster = "ON_OFF"
          /\ attr_writes'[1].attr_id = "ON_OFF_ON_OFF"
          /\ attr_writes'[1].value = arg'.on
          /\ ret' = "ESP_OK" <=> arg'.status = "SUCCESS"
          /\ ret' # "ESP_OK" => ret' = "ESP_FAIL"
          /\ s_relay_state' = s_relay_state
          /\ gpio_level' = gpio_level
          /\ gpio_writes' = <<>>
          /\ s_on_off_callback' = s_on_off_callback
          /\ cb_calls' = <<>>]_vars

\* a refused push of OFF while the relay is ON and the program's callback is
\* registered
C21_Witness ==
    /\ op = "zigbee_handler_set_on_off_attribute"
    /\ arg.status = "FAIL"
    /\ arg.on = FALSE
    /\ ret = "ESP_FAIL"
    /\ Len(attr_writes) = 1
    /\ s_relay_state = TRUE
    /\ s_on_off_callback = "on_zigbee_on_off_command"

Registered == op' = "zigbee_handler_register_on_off_callback"

\* C22: the callback slot holds the last registration.  Registering puts the
\* callback given into the slot, invokes nothing and leaves the relay as it
\* is; nothing else changes the slot; and an accepted attribute event invokes
\* the callback in the slot exactly once, with the event's value, and no
\* other function: after cb1 and then cb2 were registered, cb2 and never cb1.
C22_LastRegistrationWins ==
    [][/\ Registered =>
              /\ s_on_off_callback' = arg'.cb
              /\ cb_calls' = <<>>
              /\ gpio_writes' = <<>>
              /\ s_relay_state' = s_relay_state
              /\ gpio_level' = gpio_level
       /\ ~Registered => s_on_off_callback' = s_on_off_callback
       /\ (/\ op' = "zb_attribute_handler"
           /\ arg'.present /\ arg'.status = "SUCCESS"
           /\ arg'.dst_endpoint = 10 /\ arg'.cluster = "ON_OFF"
           /\ arg'.attr_id = "ON_OFF_ON_OFF" /\ arg'.type = "BOOL"
           /\ s_on_off_callback # "NULL") =>
              cb_calls' = <<[cb |-> s_on_off_callback, on |-> arg'.value = "true"]>>
       /\ \A i \in 1..Len(cb_calls') : cb_calls'[i].cb = s_on_off_callback]_vars

\* the program's callback was registered over another one, and an event for
\* ON invoked it and not the other: the relay is ON
C22_Witness ==
    /\ IsAttrStep
    /\ h_prev_cb = "other_callback"
    /\ s_on_off_callback = "on_zigbee_on_off_command"
    /\ cb_calls = <<[cb |-> "on_zigbee_on_off_command", on |-> TRUE]>>
    /\ s_relay_state = TRUE
    /\ Len(hist) = 1

\* both calls have returned
RaceDone == ctx.T.pc = "done" /\ ctx.S.pc = "done"

\* what the two serial orders of relay_toggle and relay_set(b) end in:
\* toggle then set(b) ends in b, set(b) then toggle ends in not b, the pin at
\* the level of the state
SerialOutcomes ==
    {[state |-> v, level |-> IF v THEN OnLevel ELSE OffLevel] :
        v \in {ctx.S.on, ~ctx.S.on}}

WroteRelay == gpio_writes' # <<>> \/ s_relay_state' # s_relay_state

\* C24: the relay is written from one context at a time.  Apart from the
\* reset of memory at a restart, a step that writes the relay is either
\* relay_init, made by setup() before the stack is initialized and the main
\* loop entered, or the handling of one attribute event in the main loop,
\* which invokes the callback once and makes one relay_set with one write of
\* the pin; the main loop runs only after relay_init has completed.
C24_OneWriterAtATime ==
    /\ [][(WroteRelay /\ op' # "boot") =>
             \/ /\ op' = "relay_init"
                /\ pc = "relay_init"
                /\ ~zb_handlers
                /\ pc' # "main_loop"
             \/ /\ op' = "zb_attribute_handler"
                /\ pc = "main_loop" /\ pc' = "main_loop"
                /\ Len(cb_calls') = 1
                /\ Len(gpio_writes') = 1
                /\ hist'[Len(hist')].op = "relay_set"]_vars
    /\ [](pc = "main_loop" => gpio_output)

\* a relay_set from the callback, in the main loop, right after relay_init
\* and with a retry alarm pending
C24_Witness ==
    /\ pc = "main_loop"
    /\ IsAttrStep
    /\ Len(cb_calls) = 1
    /\ Len(hist) = 2
    /\ hist[1].op = "relay_init"
    /\ hist[2].op = "relay_set"
    /\ hist[2].arg = TRUE
    /\ alarms # <<>>

FailureStatuses == {"StartupFailed", "SteeringFailed"}

\* the order of the join progress
Rank(st) ==
    CASE st = "Uninitialized" -> 0
      [] st = "Commissioning" -> 1
      [] st = "Steering" -> 2
      [] st = "Joined" -> 3
      [] OTHER -> 0

\* C25: the join status only advances in the order Uninitialized,
\* Commissioning, Steering, Joined, the moves out of the two failure statuses
\* apart; and from Joined no step leads back to Commissioning or Steering or
\* issues a begin_steering.  (The handler does not know the status it is in
\* and answers every signal the same way: this is the statement that fails.)
C25_StatusAdvancesOnly ==
    [][/\ (join_status \notin FailureStatuses /\ join_status' \notin FailureStatuses) =>
              Rank(join_status') >= Rank(join_status)
       /\ join_status = "Joined" =>
              /\ join_status' \notin {"Commissioning", "Steering"}
              /\ steer_cmds' = 0]_vars

\* C26: begin_steering is never issued spontaneously.  A step issues at most
\* one, and only when it handles a stack-ready signal or a success-status
\* start or reboot signal of a factory-new device, or when it fires an alarm
\* that a failure signal armed, the alarm being gone afterwards; so there are
\* never more commands than such causes.  A success-status steering-complete
\* signal issues none and arms nothing, and time passing while a
\* begin_steering is unanswered issues none.
C26_SteeringHasACause ==
    /\ [][/\ steer_cmds' \in {0, 1}
          /\ steer_cmds' = 1 =>
                \/ /\ HandledSignal
                   /\ \/ arg'.type = "SKIP_STARTUP"
                      \/ StartupSuccess(arg') /\ arg'.factory_new
                   /\ alarms' = alarms
                \/ /\ FiredAlarm
                   /\ arg'.cause \in StartSignals \cup {"STEERING"}
                   /\ Len(alarms') = Len(alarms) - 1
          /\ (HandledSignal /\ arg'.type = "STEERING" /\ arg'.status = "ESP_OK") =>
                steer_cmds' = 0 /\ alarms' = alarms
          /\ op' = "tick" => steer_cmds' = 0 /\ alarms' = alarms]_vars
    /\ [](Len(h_pending) = Len(alarms))

\* time passes with a begin_steering unanswered and a retry pending: no
\* command
C26_Witness ==
    /\ op = "tick"
    /\ h_steering
    /\ join_status = "Commissioning"
    /\ steer_cmds = 0
    /\ alarms # <<>>

\* a step of the main loop
LoopStep == pc = "main_loop" /\ pc' = "main_loop"

\* the step handled a success event for endpoint 10, On/Off cluster, OnOff
\* attribute
HandledMatching == op' = "zb_attribute_handler" /\ MatchesIdentity(arg')

\* the relay is OFF as long as relay_init is the last call made to it
OffSinceBoot ==
    (pc = "main_loop" /\ LastCall.op = "relay_init") =>
        (s_relay_state = FALSE /\ gpio_level = OffLevel)

\* C27 as stated: in the main loop the relay state is the value of the most
\* recent success event for the configured endpoint, cluster and attribute,
\* and OFF if there was none since boot.
C27_Original ==
    /\ [][LoopStep =>
             IF HandledMatching
             THEN s_relay_state' = (arg'.value = "true")
             ELSE s_relay_state' = s_relay_state /\ hist' = hist]_vars
    /\ []OffSinceBoot

\* C27, amended: in the main loop, whatever signals, alarms and events have
\* been handled since a successful startup, the relay state is the value of
\* the most recent success event for the configured endpoint, cluster and
\* attribute whose data type is boolean, an absent value counting as false,
\* with the pin at the level of that state; every other step leaves the relay
\* as it is; and the relay is OFF if there was no such event since boot.
C27_StateFollowsLastAccepted ==
    /\ [][LoopStep =>
             IF HandledMatching /\ arg'.type = "BOOL"
             THEN /\ s_relay_state' = (arg'.value = "true")
                  /\ gpio_level' = (IF arg'.value = "true" THEN OnLevel ELSE OffLevel)
                  /\ LastCall'.op = "relay_set"
             ELSE /\ s_relay_state' = s_relay_state
                  /\ gpio_level' = gpio_level
                  /\ hist' = hist]_vars
    /\ []OffSinceBoot

\* ON and then OFF were accepted, an alarm is pending: the relay is OFF
C27_Witness ==
    /\ pc = "main_loop"
    /\ IsAttrStep
    /\ MatchesIdentity(arg)
    /\ arg.type = "BOOL"
    /\ arg.value = "false"
    /\ Len(hist) = 2
    /\ hist[1].op = "relay_set" /\ hist[1].arg = TRUE
    /\ hist[2].op = "relay_set" /\ hist[2].state = TRUE
    /\ s_relay_state = FALSE
    /\ alarms # <<>>

\* C28: handling a stack signal of any type and status, and the firing of a
\* retry alarm, leave the stored relay state, the pin level and the
\* registered callback as they were, write nothing to the pin and invoke no
\* callback: the relay keeps its last commanded state through join failures,
\* retries and joins.
C28_JoinNeverSwitches ==
    [][(op' \in {"zb_zdo_signal_handler", "scheduler_alarm"}) =>
          /\ s_relay_state' = s_relay_state
          /\ gpio_level' = gpio_level
          /\ gpio_writes' = <<>>
          /\ hist' = hist
          /\ s_on_off_callback' = s_on_off_callback
          /\ cb_calls' = <<>>]_vars

\* the retry of a failed steering fires with the relay commanded ON: still ON
C28_Witness ==
    /\ op = "scheduler_alarm"
    /\ arg.delay = SteeringRetryDelay
    /\ LastCall.op = "relay_set"
    /\ LastCall.arg = TRUE
    /\ s_relay_state = TRUE
    /\ gpio_level = OnLevel
    /\ s_on_off_callback = "on_zigbee_on_off_command"

\* a retry alarm is pending that is not yet due
RetryPending == \E i \in 1..Len(alarms) : h_pending[i].age < alarms[i]

\* C29: arming a retry blocks nothing and the command router does not depend
\* on the join.  An accepted on/off event is applied to the relay in whatever
\* join status it arrives, a pending retry included, and changes neither the
\* status nor the alarms; while a retry is pending an event can be handled,
\* and so can the completion of a steering begun; and a signal handled while
\* a retry is pending leaves the pending alarms armed and not fired.
C29_RetryBlocksNothing ==
    /\ [][(/\ op' = "zb_attribute_handler"
           /\ MatchesIdentity(arg')
           /\ arg'.type = "BOOL") =>
             /\ s_relay_state' = (arg'.value = "true")
             /\ gpio_level' = (IF arg'.value = "true" THEN OnLevel ELSE OffLevel)
             /\ cb_calls' = <<[cb |-> s_on_off_callback, on |-> arg'.value = "true"]>>
             /\ UNCHANGED <<join_status, alarms, h_pending, h_steering>>]_vars
    /\ [][(HandledSignal /\ RetryPending) =>
             /\ SubSeq(alarms', 1, Len(alarms)) = alarms
             /\ SubSeq(h_pending', 1, Len(h_pending)) = h_pending]_vars
    /\ [](RetryPending =>
             /\ ENABLED Join_attribute_event
             /\ h_steering => ENABLED Live_answer)

\* a command for ON is applied while the retry of a failed steering is
\* pending and not yet due
C29_Witness ==
    /\ IsAttrStep
    /\ MatchesIdentity(arg)
    /\ arg.value = "true"
    /\ join_status = "SteeringFailed"
    /\ RetryPending
    /\ s_relay_state = TRUE
    /\ gpio_level = OnLevel
    /\ LastCall.state = FALSE

\* C30: a success event for the on/off attribute that is handled while the
\* callback slot is empty returns ESP_OK, invokes nothing and leaves the
\* relay and the pin as they were; its command is dropped: a later
\* registration invokes nothing and does not switch the relay, and the relay
\* state changes only in the handling of an event, to that event's value.
C30_EmptySlotDrops ==
    [][/\ (/\ op' = "zb_attribute_handler"
           /\ MatchesIdentity(arg')
           /\ arg'.type = "BOOL"
           /\ s_on_off_callback = "NULL") =>
              /\ ret' = "ESP_OK"
              /\ cb_calls' = <<>>
              /\ gpio_writes' = <<>>
              /\ s_relay_state' = s_relay_state
              /\ gpio_level' = gpio_level
       /\ (Registered /\ h_dropped # "none") =>
              /\ cb_calls' = <<>>
              /\ gpio_writes' = <<>>
              /\ s_relay_state' = s_relay_state
              /\ gpio_level' = gpio_level
       /\ s_relay_state' # s_relay_state =>
              /\ op' = "zb_attribute_handler"
              /\ s_on_off_callback # "NULL"
              /\ s_relay_state' = (arg'.value = "true")]_vars

\* a command for ON found the slot empty; the program's callback was
\* registered afterwards and the relay is still OFF
C30_Witness ==
    /\ op = "zigbee_handler_register_on_off_callback"
    /\ h_dropped = "true"
    /\ h_prev_cb = "NULL"
    /\ s_on_off_callback = "on_zigbee_on_off_command"
    /\ s_relay_state = FALSE
    /\ hist = <<>>
    /\ cb_calls = <<>>

\* C31: a success event for the configured endpoint, the on/off cluster and
\* the on/off attribute id whose data type is not boolean is ignored: the
\* handler returns ESP_OK, the callback is not invoked, nothing is written to
\* the pin, and the stored state and the pin level stay as they were,
\* whatever value the event carries.
C31_NonBooleanIgnored ==
    [][(/\ op' = "zb_attribute_handler"
        /\ MatchesIdentity(arg')
        /\ arg'.type # "BOOL") =>
           /\ ret' = "ESP_OK"
           /\ cb_calls' = <<>>
           /\ gpio_writes' = <<>>
           /\ s_relay_state' = s_relay_state
           /\ gpio_level' = gpio_level]_vars

\* with the program's callback registered and the relay OFF, a matching
\* success event of another type carrying the value true has been handled
C31_Witness ==
    /\ op = "zb_attribute_handler"
    /\ MatchesIdentity(arg)
    /\ arg.type = "U8"
    /\ arg.value = "true"
    /\ s_on_off_callback = "on_zigbee_on_off_command"
    /\ gpio_output
    /\ ret = "ESP_OK"
    /\ cb_calls = <<>>
    /\ s_relay_state = FALSE
    /\ gpio_level = relay_off_level

\* C32: a relay_init in which configuring the pin fails returns that error,
\* writes no level to the pin and does not reset the stored state: the stored
\* state and the pin level after the call are those before it.
C32_FailedInitKeepsState ==
    [][(op' = "relay_init" /\ ret' # "ESP_OK") =>
           /\ ret' = "ESP_FAIL"
           /\ gpio_writes' = <<>>
           /\ s_relay_state' = s_relay_state
           /\ relay_get_state' = s_relay_state
           /\ gpio_level' = gpio_level]_vars

\* relay_init failed on a relay that was stored ON with the pin at the ON
\* level, and the relay is still stored ON
C32_Witness ==
    /\ op = "relay_init"
    /\ ret = "ESP_FAIL"
    /\ hist # <<>>
    /\ hist[Len(hist)].op = "relay_init"
    /\ hist[Len(hist)].state = TRUE
    /\ hist[Len(hist)].level = relay_level(TRUE)
    /\ gpio_writes = <<>>
    /\ s_relay_state = TRUE
    /\ gpio_level = relay_level(TRUE)

====
